---- MODULE Spec2Model ----
(***************************************************************************)
(* FlamesBlue AI Builder backend (src/main.py): the POST /api/generate     *)
(* handler generate_site, the request validation of GenerateRequest, and   *)
(* the GET /test probe test_database.                                      *)
(*                                                                         *)
(* Text is modelled by TLC strings, character for character: Len, \o and   *)
(* SubSeq act on them as len, + and slicing do on a Python str.  Two       *)
(* non-ASCII characters of the template (the dash of line 111 and the dash *)
(* of line 101) are written "-", and the emoji that open the probe's       *)
(* status strings are left out; each replaced dash is still one character. *)
(***************************************************************************)
EXTENDS Integers, Sequences, FiniteSets, TLC

VARIABLES
    endpoint,        \* the route of the request being served: "none", "generate", "test"
    body,            \* the JSON body of the request being served
    pc,              \* where the handler serving it stands
    req,             \* the validated GenerateRequest
    bound,           \* the names bound in generate_site's frame
    prompt, color, sections, title, section_blocks, i, html,   \* its locals
    response,        \* what the caller got
    prev             \* an earlier finished invocation, remembered

vars == <<endpoint, body, pc, req, bound, prompt, color, sections, title,
          section_blocks, i, html, response, prev>>

locals == <<prompt, color, sections, title, section_blocks, i, html>>

-----------------------------------------------------------------------------
(* Program constants *)

TitleMax == 80
DefaultSections == 3
FallbackSections == 3
MinSections == 1
MaxSections == 6
CollectionsShown == 10
ErrorShown == 50

(* Bounds of the model *)

MaxCore == 2
MaxCollections == 11

-----------------------------------------------------------------------------
(* JSON and Python values.  A field of the body is omitted, null or a      *)
(* value; a Python Optional is None (Null) or a value.                     *)

Omitted == [tag |-> "omitted"]
Null == [tag |-> "null"]
Val(v) == [tag |-> "val", val |-> v]

-----------------------------------------------------------------------------
(* str methods *)

Whitespace == {" ", "\n", "\t", "\r"}

Char(s, k) == SubSeq(s, k, k)

Slice(s, n) == SubSeq(s, 1, IF Len(s) < n THEN Len(s) ELSE n)

RECURSIVE lstrip(_)
lstrip(s) ==
    IF Len(s) > 0 /\ Char(s, 1) \in Whitespace
    THEN lstrip(SubSeq(s, 2, Len(s)))
    ELSE s

RECURSIVE rstrip(_, _)
rstrip(s, chars) ==
    IF Len(s) > 0 /\ Char(s, Len(s)) \in chars
    THEN rstrip(SubSeq(s, 1, Len(s) - 1), chars)
    ELSE s

strip_none(s) == s

strip(s) == rstrip(lstrip(s), Whitespace)

RECURSIVE join(_)
join(blocks) ==
    IF blocks = <<>> THEN "" ELSE Head(blocks) \o join(Tail(blocks))

Format(v) == IF v.tag = "null" THEN "None" ELSE v.val

Truthy(v) == v.tag = "val" /\ v.val # 0

-----------------------------------------------------------------------------
(* GenerateRequest *)

FieldDefaultSlate(field) ==
    CASE field = "color" -> Val("slate")
      [] field = "sections" -> Val(DefaultSections)

FieldDefault(field) ==
    CASE field = "color" -> Val("indigo")
      [] field = "sections" -> Val(DefaultSections)

InRangeLoose(n) == n <= MaxSections

InRange(n) == MinSections <= n /\ n <= MaxSections

Valid(b) ==
    /\ b.prompt.tag = "val"
    /\ b.sections.tag = "val" => InRange(b.sections.val)

Parse(b) ==
    [prompt |-> b.prompt.val,
     color |-> IF b.color.tag = "omitted" THEN FieldDefault("color") ELSE b.color,
     sections |-> IF b.sections.tag = "omitted" THEN FieldDefault("sections") ELSE b.sections]

-----------------------------------------------------------------------------
(* generate_site: the title, the section block and the document *)

Title(p) ==
    LET t == rstrip(Slice(p, TitleMax), {"."})
    IN  IF Len(t) < Len(p) THEN t \o "..." ELSE t

ResolveSectionsAsGiven(v) == IF v.tag = "val" THEN v.val ELSE 0

ResolveSections(v) == IF Truthy(v) THEN v.val ELSE FallbackSections

IndexLabelZeroBased(k) == ToString(k)

IndexLabel(k) == ToString(k + 1)

SectionBlock(k, p) ==
    LET n == IndexLabel(k) IN
    (*  97 *) "\n"
    \o (*  98 *) "        <section class=\"py-16 border-t border-white/10\">\n"
    \o (*  99 *) "          <div class=\"max-w-6xl mx-auto px-6\">\n"
    \o (* 100 *) "            <h3 class=\"text-2xl font-semibold text-white mb-4\">Section " \o n \o "</h3>\n"
    \o (* 101 *) "            <p class=\"text-slate-300 leading-relaxed\">" \o p \o " - auto-generated content block " \o n \o " with responsive layout and accessible typography. Customize freely.</p>\n"
    \o (* 102 *) "          </div>\n"
    \o (* 103 *) "        </section>\n"
    \o (* 104 *) "        "

DocumentHead ==
    (* 106 *) "<!DOCTYPE html>\n"
    \o (* 107 *) "<html lang=\"en\">\n"
    \o (* 108 *) "<head>\n"
    \o (* 109 *) "  <meta charset=\"UTF-8\" />\n"
    \o (* 110 *) "  <meta name=\"viewport\" content=\"width=device-width, initial-scale=1.0\" />\n"
    \o (* 111 *) "  <title>AI Generated - FlamesBlue</title>\n"
    \o (* 112 *) "  <script src=\"https://cdn.tailwindcss.com\"></script>\n"
    \o (* 113 *) "  <link rel=\"preconnect\" href=\"https://fonts.googleapis.com\" />\n"
    \o (* 114 *) "  <link rel=\"preconnect\" href=\"https://fonts.gstatic.com\" crossorigin />\n"
    \o (* 115 *) "  <link href=\"https://fonts.googleapis.com/css2?family=Inter:wght@400;600;700&display=swap\" rel=\"stylesheet\" />\n"
    \o (* 116 *) "  <style>body{font-family:Inter,system-ui,-apple-system,Segoe UI,Roboto,Helvetica,Arial} .gradient{background: radial-gradient(1200px 800px at 50% 10%, rgba(99,102,241,.25), transparent), radial-gradient(1000px 600px at 80% 20%, rgba(56,189,248,.2), transparent), radial-gradient(800px 600px at 20% 20%, rgba(244,114,182,.15), transparent)} .glass{backdrop-filter:saturate(140%) blur(8px); background:rgba(2,6,23,.55); border:1px solid rgba(255,255,255,.08);}</style>\n"
    \o (* 117 *) "</head>\n"
    \o (* 118 *) "<body class=\"min-h-screen gradient bg-slate-950 text-slate-100\">\n"

NavBar(c) ==
    (* 119 *) "  <header class=\"sticky top-0 z-40\">\n"
    \o (* 120 *) "    <div class=\"max-w-6xl mx-auto px-6 py-4 flex items-center justify-between glass rounded-b-xl\">\n"
    \o (* 121 *) "      <div class=\"flex items-center gap-3\">\n"
    \o (* 122 *) "        <div class=\"w-8 h-8 rounded-lg bg-" \o c \o "-500/20 border border-" \o c \o "-500/30\"></div>\n"
    \o (* 123 *) "        <span class=\"font-semibold\">FlamesBlue AI</span>\n"
    \o (* 124 *) "      </div>\n"
    \o (* 125 *) "      <a href=\"#\" class=\"px-4 py-2 rounded-lg bg-" \o c \o "-500 text-white hover:bg-" \o c \o "-400 transition\">Get Started</a>\n"
    \o (* 126 *) "    </div>\n"
    \o (* 127 *) "  </header>\n"
    \o (* 128 *) "\n"

Hero(c, t) ==
    (* 129 *) "  <main>\n"
    \o (* 130 *) "    <section class=\"pt-16 pb-12\">\n"
    \o (* 131 *) "      <div class=\"max-w-6xl mx-auto px-6 grid md:grid-cols-2 gap-10 items-center\">\n"
    \o (* 132 *) "        <div>\n"
    \o (* 133 *) "          <h1 class=\"text-4xl md:text-5xl font-bold leading-tight\">" \o t \o "</h1>\n"
    \o (* 134 *) "          <p class=\"mt-4 text-slate-300\">A modern, responsive page created with FlamesBlue AI. Edit the text, change the colors, and export immediately.</p>\n"
    \o (* 135 *) "          <div class=\"mt-6 flex gap-3\">\n"
    \o (* 136 *) "            <a class=\"px-5 py-3 rounded-lg bg-" \o c \o "-500 text-white hover:bg-" \o c \o "-400 transition\">Primary action</a>\n"
    \o (* 137 *) "            <a class=\"px-5 py-3 rounded-lg border border-white/10 hover:border-white/20 transition\">Secondary</a>\n"
    \o (* 138 *) "          </div>\n"
    \o (* 139 *) "        </div>\n"
    \o (* 140 *) "        <div class=\"glass rounded-2xl p-6\">\n"
    \o (* 141 *) "          <div class=\"aspect-video rounded-xl bg-black/30 border border-white/10 flex items-center justify-center text-slate-400\">Media</div>\n"
    \o (* 142 *) "        </div>\n"
    \o (* 143 *) "      </div>\n"
    \o (* 144 *) "    </section>\n"
    \o (* 145 *) "\n"

SectionsSlot(blocks) ==
    (* 146 *) "    " \o blocks \o "\n"
    \o (* 147 *) "\n"

Footer(c) ==
    (* 148 *) "    <footer class=\"py-12 border-t border-white/10 mt-8\">\n"
    \o (* 149 *) "      <div class=\"max-w-6xl mx-auto px-6 flex items-center justify-between\">\n"
    \o (* 150 *) "        <span class=\"text-sm text-slate-400\">Generated with FlamesBlue AI</span>\n"
    \o (* 151 *) "        <a class=\"text-sm text-" \o c \o "-400 hover:text-" \o c \o "-300\" href=\"#\">Export</a>\n"
    \o (* 152 *) "      </div>\n"
    \o (* 153 *) "    </footer>\n"

DocumentTail ==
    (* 154 *) "  </main>\n"
    \o (* 155 *) "</body>\n"
    \o (* 156 *) "</html>"

Document(c, t, blocks) ==
    DocumentHead \o NavBar(c) \o Hero(c, t) \o SectionsSlot(join(blocks))
    \o Footer(c) \o DocumentTail

StaleBlocks == IF prev.set THEN prev.blocks ELSE <<>>

EmptyBlocks == <<>>

-----------------------------------------------------------------------------
(* The requests the model sends *)

BakeryPrompt == "Build me a bakery site"

SectionMarker == "<section class=\"py-16 border-t border-white/10\">"

LongPrompt ==
    "Build a portfolio site for a freelance photographer, with galleries, "
    \o "pricing and a contact form..."

NamedPrompts ==
    { BakeryPrompt,
      "  Launch page for a <b>bold</b> studio.  ",
      "Docs " \o SectionMarker \o " portal",
      "Shop </main> now",
      LongPrompt }

Alphabet == {"x", ".", " "}

RECURSIVE Words(_)
Words(n) ==
    IF n = 0 THEN {""}
    ELSE LET shorter == Words(n - 1)
         IN  shorter \cup {w \o ch : w \in shorter, ch \in Alphabet}

RECURSIVE Pad(_)
Pad(k) == IF k = 0 THEN "" ELSE "x" \o Pad(k - 1)

PadLens == {0} \cup ((TitleMax - MaxCore) .. (TitleMax + 1))

GeneratedPrompts ==
    {lead \o Pad(k) \o w : lead \in {"", " "}, k \in PadLens, w \in Words(MaxCore)}

ColorValues == {Omitted, Null, Val("emerald"), Val("sky\"><i>")}

SectionValues ==
    {Omitted, Null} \cup {Val(n) : n \in (MinSections - 1) .. (MaxSections + 1)}

Requests ==
    {[prompt |-> Val(p), color |-> Omitted, sections |-> Omitted] :
        p \in GeneratedPrompts}
    \cup
    {[prompt |-> p, color |-> c, sections |-> s] :
        p \in {Omitted, Null} \cup {Val(q) : q \in NamedPrompts},
        c \in ColorValues, s \in SectionValues}

TrackedRequests ==
    { [prompt |-> Val(BakeryPrompt), color |-> Val("emerald"), sections |-> Val(2)],
      [prompt |-> Val(BakeryPrompt), color |-> Omitted, sections |-> Omitted],
      [prompt |-> Val(" " \o Pad(TitleMax) \o "."), color |-> Omitted, sections |-> Omitted] }

-----------------------------------------------------------------------------
(* State *)

NoResponse == [kind |-> "none"]

Init ==
    /\ endpoint = "none"
    /\ body = [tag |-> "none"]
    /\ pc = "idle"
    /\ req = [tag |-> "none"]
    /\ bound = {}
    /\ prompt = ""
    /\ color = Null
    /\ sections = 0
    /\ title = ""
    /\ section_blocks = <<>>
    /\ i = 0
    /\ html = ""
    /\ response = NoResponse
    /\ prev = [set |-> FALSE]

(* What is remembered of an earlier invocation once request b arrives: a   *)
(* request came later, and one other than the remembered came in between.  *)
Later(b) ==
    IF prev.set
    THEN [prev EXCEPT !.later = TRUE, !.between = @ \/ b # prev.body]
    ELSE prev

(* The frame of a call is its own: once the call is over nothing of it is  *)
(* left, and the next call starts with nothing bound.                      *)
NewFrame ==
    /\ req' = [tag |-> "none"]
    /\ bound' = {}
    /\ prompt' = ""
    /\ color' = Null
    /\ sections' = 0
    /\ title' = ""
    /\ section_blocks' = <<>>
    /\ i' = 0
    /\ html' = ""

-----------------------------------------------------------------------------
(* POST /api/generate *)

Submit(b) ==
    /\ pc = "idle"
    /\ endpoint' = "generate"
    /\ body' = b
    /\ pc' = "validate"
    /\ prev' = Later(b)
    /\ UNCHANGED <<req, bound, locals, response>>

Validate ==
    /\ pc = "validate"
    /\ IF Valid(body)
       THEN /\ req' = Parse(body)
            /\ pc' = "L82"
            /\ UNCHANGED response
       ELSE /\ response' = [kind |-> "error", status |-> 422,
                            detail |-> "validation error"]
            /\ pc' = "responded"
            /\ UNCHANGED req
    /\ UNCHANGED <<endpoint, body, bound, locals, prev>>

StripPrompt ==
    /\ pc = "L82"
    /\ prompt' = strip(req.prompt)
    /\ bound' = bound \cup {"prompt"}
    /\ IF prompt' = ""
       THEN /\ response' = [kind |-> "error", status |-> 400,
                            detail |-> "Prompt cannot be empty"]
            /\ pc' = "responded"
       ELSE /\ pc' = "L86"
            /\ UNCHANGED response
    /\ UNCHANGED <<endpoint, body, req, color, sections, title, section_blocks,
                   i, html, prev>>

ResolveInputs ==
    /\ pc = "L86"
    /\ color' = req.color
    /\ sections' = ResolveSections(req.sections)
    /\ bound' = bound \cup {"color", "sections"}
    /\ pc' = "L90"
    /\ UNCHANGED <<endpoint, body, req, prompt, title, section_blocks, i, html,
                   response, prev>>

DeriveTitle ==
    /\ pc = "L90"
    /\ title' = Title(prompt)
    /\ bound' = bound \cup {"title"}
    /\ pc' = "L95"
    /\ UNCHANGED <<endpoint, body, req, prompt, color, sections, section_blocks,
                   i, html, response, prev>>

NewBlocks ==
    /\ pc = "L95"
    /\ section_blocks' = EmptyBlocks
    /\ i' = 0
    /\ bound' = bound \cup {"section_blocks"}
    /\ pc' = "L96"
    /\ UNCHANGED <<endpoint, body, req, prompt, color, sections, title, html,
                   response, prev>>

AppendSection ==
    /\ pc = "L96"
    /\ i < sections
    /\ section_blocks' = Append(section_blocks, SectionBlock(i, prompt))
    /\ i' = i + 1
    /\ bound' = bound \cup {"i"}
    /\ UNCHANGED <<endpoint, body, pc, req, prompt, color, sections, title, html,
                   response, prev>>

Assemble ==
    /\ pc = "L96"
    /\ i >= sections
    /\ html' = Document(Format(color), title, section_blocks)
    /\ bound' = bound \cup {"html"}
    /\ pc' = "L158"
    /\ UNCHANGED <<endpoint, body, req, prompt, color, sections, title,
                   section_blocks, i, response, prev>>

Return ==
    /\ pc = "L158"
    /\ response' = [kind |-> "document", status |-> 200, html |-> html,
                    meta |-> [prompt |-> prompt, color |-> color,
                              sections |-> sections]]
    /\ pc' = "responded"
    /\ \/ UNCHANGED prev
       \/ /\ body \in TrackedRequests
          /\ prev' = [set |-> TRUE, later |-> FALSE, between |-> FALSE,
                      body |-> body, response |-> response',
                      blocks |-> section_blocks]
    /\ UNCHANGED <<endpoint, body, req, bound, locals>>

-----------------------------------------------------------------------------
(* GET /test: test_database *)

Exc(type, msg) == [type |-> type, msg |-> msg]

Superclasses(type) ==
    CASE type = "ModuleNotFoundError" -> {"ModuleNotFoundError", "ImportError", "Exception"}
      [] type = "ImportError" -> {"ImportError", "Exception"}
      [] OTHER -> {type, "Exception"}

IsInstanceExact(e, cls) == e.type = cls

IsInstance(e, cls) == cls \in Superclasses(e.type)

Str50(e) == Slice(e.msg, ErrorShown)

InitialStatus ==
    [kind |-> "status", status |-> 200,
     backend |-> "Running",
     database |-> "Not Available",
     database_url |-> Null,
     database_name |-> Null,
     connection_status |-> "Not Connected",
     collections |-> <<>>]

(* Lines 186-191: the inner try around the listing. *)
ListCollections(db, r) ==
    IF db.listing.kind = "ok"
    THEN [exc |-> Null,
          resp |-> [r EXCEPT
                      !.collections =
                          SubSeq(db.listing.names, 1,
                                 IF Len(db.listing.names) < CollectionsShown
                                 THEN Len(db.listing.names) ELSE CollectionsShown),
                      !.database = "Connected & Working"]]
    ELSE IF IsInstance(db.listing.exc, "Exception")
    THEN [exc |-> Null,
          resp |-> [r EXCEPT !.database =
                       "Connected but Error: " \o Str50(db.listing.exc)]]
    ELSE [exc |-> Val(db.listing.exc), resp |-> r]

(* Lines 180-193: the body of the outer try. *)
ProbeBody(imp, r) ==
    IF imp.kind = "raise"
    THEN [exc |-> Val(imp.exc), resp |-> r]
    ELSE IF imp.db.tag = "val"
    THEN ListCollections(imp.db.val,
             [r EXCEPT
                !.database = "Available",
                !.database_url = Val("Configured"),
                !.database_name = IF imp.db.val.has_name
                                  THEN Val(imp.db.val.name) ELSE Val("Connected"),
                !.connection_status = "Connected"])
    ELSE [exc |-> Null,
          resp |-> [r EXCEPT !.database = "Available but not initialized"]]

(* Lines 194-197: the handlers of the outer try. *)
ProbeHandlers(out) ==
    IF out.exc.tag = "null" THEN out
    ELSE IF IsInstance(out.exc.val, "ImportError")
    THEN [exc |-> Null,
          resp |-> [out.resp EXCEPT !.database =
                       "Database module not found (run enable-database first)"]]
    ELSE IF IsInstance(out.exc.val, "Exception")
    THEN [exc |-> Null,
          resp |-> [out.resp EXCEPT !.database = "Error: " \o Str50(out.exc.val)]]
    ELSE out

(* Lines 199-200: os.getenv gives None or the variable's text. *)
EnvStatus(v) == IF v.tag = "val" /\ v.val # "" THEN Val("Set") ELSE Val("Not Set")

ProbeEnv(r, env) ==
    [r EXCEPT !.database_url = EnvStatus(env.DATABASE_URL),
              !.database_name = EnvStatus(env.DATABASE_NAME)]

LongMessage ==
    "ServerSelectionTimeoutError: localhost:27017: [Errno 111] Connection refused"

Exceptions ==
    { Exc("ImportError", "cannot import name 'db' from 'database'"),
      Exc("ModuleNotFoundError", "No module named 'database'"),
      Exc("RuntimeError", "boom"),
      Exc("OperationFailure", LongMessage) }

CollectionNames(n) == [k \in 1 .. n |-> "c" \o ToString(k)]

Handles ==
    {[has_name |-> h, name |-> "app", listing |-> l] :
        h \in BOOLEAN,
        l \in {[kind |-> "ok", names |-> CollectionNames(n)] : n \in 0 .. MaxCollections}
              \cup {[kind |-> "raise", exc |-> e] : e \in Exceptions}}

Imports ==
    {[kind |-> "raise", exc |-> e] : e \in Exceptions}
    \cup {[kind |-> "db", db |-> Null]}
    \cup {[kind |-> "db", db |-> Val(h)] : h \in Handles}

EnvValues == {Null, Val(""), Val("mongodb://localhost:27017")}

Environments ==
    {[DATABASE_URL |-> u, DATABASE_NAME |-> n] : u \in EnvValues, n \in EnvValues}

TestDatabase(imp, env) ==
    /\ pc = "idle"
    /\ endpoint' = "test"
    /\ body' = [tag |-> "probe", import |-> imp, env |-> env]
    /\ LET out == ProbeHandlers(ProbeBody(imp, InitialStatus))
       IN  response' =
              IF out.exc.tag = "null"
              THEN ProbeEnv(out.resp, env)
              ELSE [kind |-> "error", status |-> 500,
                    detail |-> "Internal Server Error"]
    /\ pc' = "responded"
    /\ prev' = Later(body')
    /\ UNCHANGED <<req, bound, locals>>

(* The response is sent and the call is over. *)
Finish ==
    /\ pc = "responded"
    /\ endpoint' = "none"
    /\ body' = [tag |-> "none"]
    /\ pc' = "idle"
    /\ response' = NoResponse
    /\ NewFrame
    /\ UNCHANGED prev

-----------------------------------------------------------------------------

Next ==
    \/ \E b \in Requests : Submit(b)
    \/ Validate
    \/ StripPrompt
    \/ ResolveInputs
    \/ DeriveTitle
    \/ NewBlocks
    \/ AppendSection
    \/ Assemble
    \/ Return
    \/ \E imp \in Imports, env \in Environments : TestDatabase(imp, env)
    \/ Finish

Spec == Init /\ [][Next]_vars

-----------------------------------------------------------------------------
(* Reading text: occurrences of a pattern, and the tags of a document *)

OccursAt(s, pat, k) ==
    /\ k >= 1
    /\ k + Len(pat) - 1 <= Len(s)
    /\ SubSeq(s, k, k + Len(pat) - 1) = pat

Positions(s, pat) ==
    {k \in 1 .. (Len(s) - Len(pat) + 1) :
        Char(s, k) = Char(pat, 1) /\ OccursAt(s, pat, k)}

Count(s, pat) == Cardinality(Positions(s, pat))

Contains(s, pat) == Positions(s, pat) # {}

AllWhitespace(s) == \A k \in 1 .. Len(s) : Char(s, k) \in Whitespace

VoidElements == {"meta", "link", "br", "hr", "img", "input"}

RECURSIVE NameEnd(_, _)
NameEnd(s, k) ==
    IF k > Len(s) \/ Char(s, k) \in Whitespace \cup {"/", ">"}
    THEN k
    ELSE NameEnd(s, k + 1)

(* The tags of s in document order.  A tag opens at a "<" that a name, "/" *)
(* or "!" follows and closes at the next ">".                              *)
Tags(s) ==
    LET gts == {k \in 1 .. Len(s) : Char(s, k) = ">"}
        lts == {k \in 1 .. (Len(s) - 1) :
                   Char(s, k) = "<" /\ Char(s, k + 1) \notin Whitespace}
        rank == [p \in lts |-> Cardinality({q \in lts : q <= p})]
        at == [r \in 1 .. Cardinality(lts) |-> CHOOSE p \in lts : rank[p] = r]
        tag(p) ==
            IF \A g \in gts : g < p
            THEN [kind |-> "unterminated", name |-> ""]
            ELSE LET e == CHOOSE g \in gts : g > p /\ \A h \in gts : h > p => g <= h
                 IN  IF Char(s, p + 1) = "!"
                     THEN [kind |-> "void", name |-> "!"]
                     ELSE IF Char(s, p + 1) = "/"
                     THEN [kind |-> "close", name |-> SubSeq(s, p + 2, NameEnd(s, p + 2) - 1)]
                     ELSE LET name == SubSeq(s, p + 1, NameEnd(s, p + 1) - 1)
                          IN  [kind |-> IF Char(s, e - 1) = "/" \/ name \in VoidElements
                                        THEN "void" ELSE "open",
                               name |-> name]
    IN  [r \in 1 .. Cardinality(lts) |-> tag(at[r])]

RECURSIVE Balanced(_, _, _, _)
Balanced(tags, k, stack, rootClosed) ==
    IF k > Len(tags) THEN stack = <<>> /\ rootClosed
    ELSE LET t == tags[k]
         IN  CASE t.kind = "unterminated" -> FALSE
               [] t.kind = "void" -> Balanced(tags, k + 1, stack, rootClosed)
               [] t.kind = "open" ->
                    /\ ~rootClosed
                    /\ Balanced(tags, k + 1, <<t.name>> \o stack, FALSE)
               [] t.kind = "close" ->
                    /\ stack # <<>>
                    /\ Head(stack) = t.name
                    /\ Balanced(tags, k + 1, Tail(stack), Len(stack) = 1)

WellFormed(s) == Balanced(Tags(s), 1, <<>>, FALSE)

Served(route) == endpoint = route /\ pc = "responded"

Generated == Served("generate") /\ response.kind = "document"

RECURSIVE InOrder(_, _)
InOrder(blocks, k) ==
    IF k > Len(blocks) THEN "" ELSE blocks[k] \o InOrder(blocks, k + 1)

GivenColor ==
    IF body.color.tag = "omitted" THEN "indigo"
    ELSE IF body.color.tag = "null" THEN "None"
    ELSE body.color.val

-----------------------------------------------------------------------------
(* C1: the title is prompt[:80] without its trailing periods plus "..."    *)
(* when the prompt is longer than 80 characters, and otherwise the prompt  *)
(* without its trailing periods and without "...".                         *)

ClaimedTitle(p) ==
    IF Len(p) > TitleMax
    THEN rstrip(SubSeq(p, 1, TitleMax), {"."}) \o "..."
    ELSE rstrip(p, {"."})

C1_TitleTruncationLaw ==
    "title" \in bound => title = ClaimedTitle(prompt)

(* C2: the document holds exactly n occurrences of the section marker,     *)
(* whatever the prompt and the color are.                                  *)
C2_ExactlyNMarkers ==
    Generated => Count(response.html, SectionMarker) = response.meta.sections

(* C3: an empty or whitespace-only prompt is answered 400 "Prompt cannot   *)
(* be empty", with no html or meta, before a title, a section block or a   *)
(* document is built.                                                      *)
C3_EmptyPromptRejected ==
    (endpoint = "generate" /\ Valid(body) /\ AllWhitespace(body.prompt.val)) =>
        /\ pc \in {"validate", "L82", "responded"}
        /\ bound \subseteq {"prompt"}
        /\ pc = "responded" =>
              response = [kind |-> "error", status |-> 400,
                          detail |-> "Prompt cannot be empty"]

C3_Witness ==
    /\ Served("generate")
    /\ Valid(body)
    /\ Len(body.prompt.val) >= 2
    /\ AllWhitespace(body.prompt.val)
    /\ response.status = 400

(* C4: the returned html is well formed (every tag matched in nesting, one *)
(* root), also when the prompt or the color holds markup.                  *)
C4_WellFormed ==
    Generated => WellFormed(response.html)

(* C5: an invocation with the inputs of an earlier one returns the same    *)
(* html and meta, whatever was invoked in between.                         *)
C5_Deterministic ==
    (Served("generate") /\ prev.set /\ prev.later /\ prev.body = body) =>
        response = prev.response

C5_Witness ==
    /\ Generated
    /\ prev.set /\ prev.later /\ prev.between /\ prev.body = body
    /\ Len(prev.blocks) = 2

(* C6: the color is in the html as given at the navigation accent, the     *)
(* primary button and the footer link, and is "indigo" when omitted.       *)
C6_ColorReflected ==
    Generated =>
        LET c == GivenColor
            h == response.html
        IN  /\ Contains(h, "<div class=\"w-8 h-8 rounded-lg bg-" \o c \o "-500")
            /\ Contains(h, "rounded-lg bg-" \o c \o "-500 text-white hover:bg-" \o c
                           \o "-400 transition\">Primary action</a>")
            /\ Contains(h, "<a class=\"text-sm text-" \o c \o "-400 ")

C6_Witness ==
    /\ Generated
    /\ body.color.tag = "omitted"
    /\ Contains(response.html, "text-indigo-400")

(* The blocks stand in h, first to last, right after the hero section and  *)
(* right before the footer, which the rest of the document follows.        *)
BlocksEmbedded(h, blocks, c) ==
    LET all == InOrder(blocks, 1)
        tail == "\n\n    <footer class=\"py-12 border-t border-white/10 mt-8\">\n"
        after == Len(h) - Len(Footer(c) \o DocumentTail) - 1
        first == after - Len(all)
        hero == "      </div>\n    </section>\n\n    "
    IN  /\ OccursAt(h, all, first)
        /\ OccursAt(h, hero, first - Len(hero))
        /\ OccursAt(h, tail, after)

(* C7: meta holds the prompt without its leading and trailing whitespace,  *)
(* the color as given ("indigo" when omitted) and the section count used   *)
(* (3 when omitted or null), which is the number of section blocks.        *)
C7_MetaNormalized ==
    Generated =>
        LET m == response.meta
            given == body.prompt.val
        IN  /\ \E a \in 0 .. Len(given) :
                  /\ AllWhitespace(SubSeq(given, 1, a))
                  /\ OccursAt(given, m.prompt, a + 1)
                  /\ AllWhitespace(SubSeq(given, a + Len(m.prompt) + 1, Len(given)))
            /\ Char(m.prompt, 1) \notin Whitespace
            /\ Char(m.prompt, Len(m.prompt)) \notin Whitespace
            /\ m.color = IF body.color.tag = "omitted" THEN Val("indigo") ELSE body.color
            /\ m.sections = IF body.sections.tag = "val" THEN body.sections.val ELSE 3
            /\ m.sections = Len(section_blocks)
            /\ BlocksEmbedded(response.html, section_blocks, GivenColor)
            /\ (body = [prompt |-> Val("Build me a bakery site"),
                        color |-> Val("emerald"), sections |-> Val(2)])
                 => m = [prompt |-> "Build me a bakery site",
                         color |-> Val("emerald"), sections |-> 2]

C7_Witness ==
    /\ Generated
    /\ body.sections.tag = "null"
    /\ Len(body.prompt.val) > Len(response.meta.prompt)
    /\ response.meta.sections = 3

(* C8: a validated request fails exactly when its trimmed prompt is empty; *)
(* a sections value outside 1..6 is rejected before the generator runs, so *)
(* the section loop runs between 1 and 6 times.                            *)
C8_OneErrorCondition ==
    /\ (Served("generate") /\ Valid(body)) =>
          IF AllWhitespace(body.prompt.val)
          THEN response.kind = "error" /\ response.status = 400
          ELSE response.kind = "document" /\ response.status = 200
    /\ (endpoint = "generate" /\ body.sections.tag = "val"
            /\ body.sections.val \notin 1 .. 6) =>
          /\ pc \in {"validate", "responded"}
          /\ bound = {}
          /\ pc = "responded" => response.kind = "error" /\ response.status = 422
    /\ pc = "L96" => sections \in 1 .. 6 /\ i <= sections
    /\ pc \in {"L158", "responded"} /\ "html" \in bound => i \in 1 .. 6

C8_Witness ==
    /\ Served("generate")
    /\ body.sections = Val(0)
    /\ response.status = 422

(* C9: the /test probe always answers with a status record whose database  *)
(* field describes what happened; no failure inside it reaches the caller. *)
Shown(msg) == SubSeq(msg, 1, IF Len(msg) < 50 THEN Len(msg) ELSE 50)

DatabaseStatus(imp) ==
    IF imp.kind = "raise"
    THEN IF imp.exc.type \in {"ImportError", "ModuleNotFoundError"}
         THEN "Database module not found (run enable-database first)"
         ELSE "Error: " \o Shown(imp.exc.msg)
    ELSE IF imp.db.tag = "null"
    THEN "Available but not initialized"
    ELSE IF imp.db.val.listing.kind = "ok"
    THEN "Connected & Working"
    ELSE "Connected but Error: " \o Shown(imp.db.val.listing.exc.msg)

C9_ProbeNeverFails ==
    Served("test") =>
        /\ response.kind = "status"
        /\ response.status = 200
        /\ response.database = DatabaseStatus(body.import)
        /\ response.database_url \in {Val("Set"), Val("Not Set")}
        /\ response.database_name \in {Val("Set"), Val("Not Set")}
        /\ Len(response.collections) <= 10

C9_Witness ==
    /\ Served("test")
    /\ body.import.kind = "raise"
    /\ body.import.exc.type = "OperationFailure"
    /\ response.kind = "status"
    /\ Len(response.database) = 57

(* C10: the n section blocks stand in the html in increasing order between *)
(* the hero and the footer, block k headed "Section k", each with the full *)
(* trimmed prompt as its copy, and differ only in their index.             *)
BlockHeading(k) ==
    "\n        <section class=\"py-16 border-t border-white/10\">\n"
    \o "          <div class=\"max-w-6xl mx-auto px-6\">\n"
    \o "            <h3 class=\"text-2xl font-semibold text-white mb-4\">Section "
    \o ToString(k) \o "</h3>\n"
    \o "            <p class=\"text-slate-300 leading-relaxed\">"

C10_SectionsInOrder ==
    Generated =>
        LET h == response.html
            n == response.meta.sections
            p == response.meta.prompt
        IN  /\ Len(section_blocks) = n
            /\ \A k \in 1 .. n :
                  LET b == section_blocks[k]
                      copy == p \o " - auto-generated content block " \o ToString(k)
                                \o " with responsive layout"
                  IN  /\ OccursAt(b, BlockHeading(k), 1)
                      /\ OccursAt(b, copy, Len(BlockHeading(k)) + 1)
            /\ \A j, k \in 1 .. n :
                  j # k =>
                     /\ Len(section_blocks[j]) = Len(section_blocks[k])
                     /\ Cardinality({x \in 1 .. Len(section_blocks[j]) :
                            Char(section_blocks[j], x) # Char(section_blocks[k], x)}) = 2
            /\ BlocksEmbedded(h, section_blocks, GivenColor)

C10_Witness ==
    /\ Generated
    /\ response.meta.sections = 6
    /\ Len(response.meta.prompt) > TitleMax

(* The documents built from prompts and colors without markup are well     *)
(* formed: WellFormed accepts the template.                                *)
PlainInputs ==
    /\ ~Contains(body.prompt.val, "<")
    /\ body.color.tag = "val" => ~Contains(body.color.val, "<")

TemplateWellFormed ==
    (Generated /\ PlainInputs) => WellFormed(response.html)

====
